---- MODULE Spec2Model ----
(***************************************************************************)
(* Model of bilge-impl/src/bitsize/split.rs: split_item_attributes walks   *)
(* the attributes of a struct or enum, expands every derive list into      *)
(* singleton derives, rejects invalid configurations with a diagnostic and *)
(* sorts the rest into before_compression / after_compression.             *)
(*                                                                         *)
(* Token text is modelled with real strings: a token stream is a sequence  *)
(* of token strings and its rendering joins them with single spaces, as    *)
(* the matched literals "zerocopy :: FromBytes" of the source presume.     *)
(***************************************************************************)
EXTENDS Naturals, Sequences, FiniteSets, TLC

(***************************************************************************)
(* Bound of the input space: an item carries attributes whose total weight *)
(* (one per attribute plus one per listed derive target) is at most        *)
(* MaxWeight.  The documented example of the source is added on top.       *)
(***************************************************************************)
MaxWeight == 4

None == [none |-> TRUE]

(***************************************************************************)
(* Strings and token streams                                               *)
(***************************************************************************)
contains(s, pat) ==
    \E i \in 1..(Len(s) + 1) :
        /\ i + Len(pat) - 1 <= Len(s)
        /\ SubSeq(s, i, i + Len(pat) - 1) = pat

ends_with(s, suf) ==
    /\ Len(s) >= Len(suf)
    /\ SubSeq(s, Len(s) - Len(suf) + 1, Len(s)) = suf

RECURSIVE TokensToString(_)
TokensToString(toks) ==
    IF toks = <<>> THEN ""
    ELSE IF Len(toks) = 1 THEN toks[1]
    ELSE toks[1] \o " " \o TokensToString(Tail(toks))

Puncts == {"::", ",", "=", "(", ")"}

LitStarts == {"\"", "0", "1", "2", "3", "4", "5", "6", "7", "8", "9"}

IsLit(tok) == Len(tok) > 0 /\ SubSeq(tok, 1, 1) \in LitStarts

IsIdent(tok) == tok \notin Puncts /\ Len(tok) > 0 /\ ~IsLit(tok)

(***************************************************************************)
(* syn::Path restricted to what a meta path can hold: an optional leading  *)
(* `::` and identifier segments.                                           *)
(***************************************************************************)
MkPath(leading, segs) == [leading_colon |-> leading, segments |-> segs]

RECURSIVE SegmentTokens(_)
SegmentTokens(segs) ==
    IF segs = <<>> THEN <<>>
    ELSE IF Len(segs) = 1 THEN <<segs[1]>>
    ELSE <<segs[1], "::">> \o SegmentTokens(Tail(segs))

PathTokens(p) ==
    (IF p.leading_colon THEN <<"::">> ELSE <<>>) \o SegmentTokens(p.segments)

is_ident(p, name) ==
    /\ ~p.leading_colon
    /\ Len(p.segments) = 1
    /\ p.segments[1] = name

(***************************************************************************)
(* syn::Meta and syn::Attribute                                            *)
(***************************************************************************)
MetaPath(p) == [kind |-> "Path", path |-> p]

MetaList(p, toks) == [kind |-> "List", path |-> p, tokens |-> toks]

MetaNameValue(p, v) == [kind |-> "NameValue", path |-> p, value |-> v]

MetaTokens(meta) ==
    CASE meta.kind = "Path" -> PathTokens(meta.path)
      [] meta.kind = "List" ->
            PathTokens(meta.path) \o <<"(">> \o meta.tokens \o <<")">>
      [] meta.kind = "NameValue" ->
            PathTokens(meta.path) \o <<"=", meta.value>>

MkAttribute(meta) == [meta |-> meta]

(***************************************************************************)
(* syn::meta: the parser behind MetaList::parse_nested_meta.  A nested     *)
(* meta path is an optional `::`, an identifier, and further `::` ident    *)
(* pairs; the callback of parse_attribute consumes nothing after the path, *)
(* so after each path only `,` or the end of the list is accepted.         *)
(***************************************************************************)
ParseError == [ok |-> FALSE]

RECURSIVE MoreSegments(_, _, _)
MoreSegments(leading, segs, toks) ==
    IF toks # <<>> /\ toks[1] = "::"
    THEN IF Len(toks) >= 2 /\ IsIdent(toks[2])
         THEN MoreSegments(leading, Append(segs, toks[2]), SubSeq(toks, 3, Len(toks)))
         ELSE ParseError
    ELSE [ok |-> TRUE, path |-> MkPath(leading, segs), rest |-> toks]

parse_meta_path(toks) ==
    LET leading == toks # <<>> /\ toks[1] = "::"
        t1 == IF leading THEN Tail(toks) ELSE toks
    IN  IF t1 # <<>> /\ IsIdent(t1[1])
        THEN MoreSegments(leading, <<t1[1]>>, Tail(t1))
        ELSE ParseError

RECURSIVE NestedMetaLoop(_, _)
NestedMetaLoop(toks, paths) ==
    LET r == parse_meta_path(toks)
    IN  IF ~r.ok THEN ParseError
        ELSE LET acc == Append(paths, r.path)
             IN  IF r.rest = <<>> THEN [ok |-> TRUE, paths |-> acc]
                 ELSE IF r.rest[1] = ","
                 THEN IF Tail(r.rest) = <<>>
                      THEN [ok |-> TRUE, paths |-> acc]
                      ELSE NestedMetaLoop(Tail(r.rest), acc)
                 ELSE ParseError

parse_nested_meta(toks) ==
    IF toks = <<>> THEN [ok |-> TRUE, paths |-> <<>>]
    ELSE NestedMetaLoop(toks, <<>>)

(***************************************************************************)
(* Derive: the path of one derive target, with the span it was read from   *)
(* (attribute index, position in the list).                                *)
(***************************************************************************)
Span(i, j) == [attr |-> i, target |-> j]

CallSite == Span(0, 0)

Derive(p, sp) == [path |-> p, span |-> sp]

to_string(derive) == TokensToString(PathTokens(derive.path))

\* fault variant: the singleton keeps only the last segment of the path
into_attribute_LastSegment(derive) ==
    MkAttribute(MetaList(MkPath(FALSE, <<"derive">>),
                         <<derive.path.segments[Len(derive.path.segments)]>>))

into_attribute(derive) ==
    MkAttribute(MetaList(MkPath(FALSE, <<"derive">>), PathTokens(derive.path)))

\* fault variant: `Bits` anywhere in the last segment
is_bitfield_derive_Contains(derive) ==
    contains(derive.path.segments[Len(derive.path.segments)], "Bits")

is_bitfield_derive(derive) ==
    LET last_segment == derive.path.segments[Len(derive.path.segments)]
    IN  ends_with(last_segment, "Bits")

\* fault variant: only the path of the meta is searched
contains_anywhere_PathOnly(meta, ident) ==
    contains(TokensToString(PathTokens(meta.path)), ident)

contains_anywhere(meta, ident) == contains(TokensToString(MetaTokens(meta)), ident)

\* fault variant: the marker test comes before the derive-list test
parse_attribute_MarkerFirst(attribute, i) ==
    LET meta == attribute.meta
    IN  IF contains_anywhere(meta, "bitsize_internal")
        THEN [variant |-> "BitsizeInternal", attr |-> attribute]
        ELSE IF meta.kind = "List" /\ is_ident(meta.path, "derive")
        THEN LET r == parse_nested_meta(meta.tokens)
             IN  IF r.ok
                 THEN [variant |-> "DeriveList",
                       derives |-> [j \in 1..Len(r.paths) |-> Derive(r.paths[j], Span(i, j))]]
                 ELSE [variant |-> "ParseFailure"]
        ELSE [variant |-> "Other", attr |-> attribute]

(***************************************************************************)
(* parse_attribute: attribute i of the item, recognised as a derive list   *)
(* (or a derive list that fails to parse, which aborts), the internal      *)
(* marker, or anything else.                                               *)
(***************************************************************************)
parse_attribute(attribute, i) ==
    LET meta == attribute.meta
    IN  IF meta.kind = "List" /\ is_ident(meta.path, "derive")
        THEN LET r == parse_nested_meta(meta.tokens)
             IN  IF r.ok
                 THEN [variant |-> "DeriveList",
                       derives |-> [j \in 1..Len(r.paths) |-> Derive(r.paths[j], Span(i, j))]]
                 ELSE [variant |-> "ParseFailure"]
        ELSE IF contains_anywhere(meta, "bitsize_internal")
        THEN [variant |-> "BitsizeInternal", attr |-> attribute]
        ELSE [variant |-> "Other", attr |-> attribute]

(***************************************************************************)
(* Inputs: the attributes an item can carry.                               *)
(***************************************************************************)
Ident(name) == MkPath(FALSE, <<name>>)

TargetPaths ==
    { Ident("Debug"),
      MkPath(FALSE, <<"fmt", "Debug">>),
      MkPath(FALSE, <<"core", "fmt", "Debug">>),
      MkPath(FALSE, <<"std", "fmt", "Debug">>),
      MkPath(TRUE, <<"std", "fmt", "Debug">>),
      Ident("FromBytes"),
      MkPath(FALSE, <<"zerocopy", "FromBytes">>),
      Ident("FromBits"),
      MkPath(FALSE, <<"bilge", "FromBits">>),
      Ident("DebugBits"),
      Ident("BitsLike"),
      Ident("Clone"),
      Ident("bitsize_internal") }

RECURSIVE ListTokens(_)
ListTokens(paths) ==
    IF paths = <<>> THEN <<>>
    ELSE IF Len(paths) = 1 THEN PathTokens(paths[1])
    ELSE PathTokens(paths[1]) \o <<",">> \o ListTokens(Tail(paths))

DeriveOf(paths) == MkAttribute(MetaList(Ident("derive"), ListTokens(paths)))

\* #[repr(u8)], #[bilge::bitsize_internal(6)], #[doc = "see bitsize_internal"],
\* #[derive] without a list, #[derive()], #[derive(Clone = 1)]
UnitAttrs ==
    { MkAttribute(MetaList(Ident("repr"), <<"u8">>)),
      MkAttribute(MetaList(MkPath(FALSE, <<"bilge", "bitsize_internal">>), <<"6">>)),
      MkAttribute(MetaNameValue(Ident("doc"), "\"see bitsize_internal\"")),
      MkAttribute(MetaPath(Ident("derive"))),
      DeriveOf(<<>>),
      MkAttribute(MetaList(Ident("derive"), <<"Clone", "=", "1">>)) }

AttrsOfWeight(w) ==
    IF w = 1 THEN UnitAttrs
    ELSE { DeriveOf(l) : l \in [1..(w - 1) -> TargetPaths] }

RECURSIVE AttrListsOfWeight(_)
AttrListsOfWeight(n) ==
    IF n = 0 THEN { <<>> }
    ELSE UNION { { <<a>> \o rest : a \in AttrsOfWeight(w),
                                   rest \in AttrListsOfWeight(n - w) } : w \in 1..n }

MkItem(kind, attrs) == [kind |-> kind, attrs |-> attrs]

\* the example of the doc comment of SplitAttributes
ExampleItem ==
    MkItem("Struct",
           << DeriveOf(<< Ident("Clone"), Ident("Copy"), Ident("PartialEq"),
                          Ident("DebugBits"), Ident("FromBits") >>) >>)

Kinds == {"Struct", "Enum", "Fn"}

\* the attribute lists of total weight n, drawn one leading attribute at a time
InputOfWeight(it, n) ==
    \E k \in Kinds :
        IF n = 0 THEN it = MkItem(k, <<>>)
        ELSE \E w \in 1..n :
                \E a \in AttrsOfWeight(w), rest \in AttrListsOfWeight(n - w) :
                    it = MkItem(k, <<a>> \o rest)

(***************************************************************************)
(* State of one call of split_item_attributes                              *)
(***************************************************************************)
VARIABLES item, pc, idx, derives, didx, from_bytes, has_frombits,
          before_compression, after_compression, diag, result

vars == << item, pc, idx, derives, didx, from_bytes, has_frombits,
           before_compression, after_compression, diag, result >>

locals == << idx, derives, didx, from_bytes, has_frombits,
             before_compression, after_compression >>

is_struct == item.kind = "Struct"

attrs == item.attrs

Init ==
    /\ \/ \E n \in 0..MaxWeight : InputOfWeight(item, n)
       \/ item \in { ExampleItem, MkItem("Enum", ExampleItem.attrs) }
    /\ pc = "start"
    /\ idx = 1
    /\ derives = <<>>
    /\ didx = 1
    /\ from_bytes = None
    /\ has_frombits = FALSE
    /\ before_compression = <<>>
    /\ after_compression = <<>>
    /\ diag = None
    /\ result = None

\* abort! / abort_call_site!: the diagnostic is emitted and the call never returns
Abort(message, help, span) ==
    /\ diag' = [message |-> message, help |-> help, span |-> span]
    /\ pc' = "aborted"
    /\ UNCHANGED << item, result >>

\* the item is neither a struct nor an enum
AbortNotStructOrEnum ==
    /\ pc = "start"
    /\ item.kind \notin {"Struct", "Enum"}
    /\ Abort("item is not a struct or enum",
             "#[bitsize] can only be used on structs and enums", CallSite)
    /\ UNCHANGED locals

EnterLoop ==
    /\ pc = "start"
    /\ item.kind \in {"Struct", "Enum"}
    /\ pc' = "loop"
    /\ UNCHANGED << item, diag, result >>
    /\ UNCHANGED locals

\* after the last target of a derive list the outer loop moves on
AfterDerive(ds, j) ==
    IF j > Len(ds)
    THEN pc' = "loop" /\ idx' = idx + 1 /\ derives' = <<>> /\ didx' = 1
    ELSE pc' = "derives" /\ idx' = idx /\ derives' = ds /\ didx' = j

\* the lazily mapped parse_attribute yields a derive list
ParseDeriveList ==
    /\ pc = "loop"
    /\ idx <= Len(attrs)
    /\ LET parsed_attr == parse_attribute(attrs[idx], idx)
       IN  /\ parsed_attr.variant = "DeriveList"
           /\ AfterDerive(parsed_attr.derives, 1)
    /\ UNCHANGED << item, diag, result, from_bytes, has_frombits,
                    before_compression, after_compression >>

\* parse_nested_meta fails inside parse_attribute
FailParseDerive ==
    /\ pc = "loop"
    /\ idx <= Len(attrs)
    /\ parse_attribute(attrs[idx], idx).variant = "ParseFailure"
    /\ Abort("failed to parse derive", "", Span(idx, 0))
    /\ UNCHANGED locals

IsFromBytes(name) == name \in {"FromBytes", "zerocopy :: FromBytes"}

\* fault variant: the qualified spelling is not recognised
IsFromBits_Unqualified(name) == name \in {"FromBits"}

IsFromBits(name) == name \in {"FromBits", "bilge :: FromBits"}

IsPlainDebug(name) ==
    name \in {"Debug", "fmt :: Debug", "core :: fmt :: Debug", "std :: fmt :: Debug"}

\* fault variant: the first FromBytes target is kept
NoteFromBytes_KeepFirst(derive) ==
    IF IsFromBytes(to_string(derive)) /\ from_bytes = None THEN derive ELSE from_bytes

\* the first two arms of the match on the target's text
NoteFromBytes(derive) ==
    IF IsFromBytes(to_string(derive)) THEN derive ELSE from_bytes

NoteFromBits(derive) ==
    IF IsFromBytes(to_string(derive)) THEN has_frombits
    ELSE IF IsFromBits(to_string(derive)) THEN TRUE
    ELSE has_frombits

\* fault variant: the Debug arm without its `if is_struct` guard
DebugArm_AnyKind(derive) ==
    /\ ~IsFromBytes(to_string(derive))
    /\ ~IsFromBits(to_string(derive))
    /\ IsPlainDebug(to_string(derive))

DebugArm(derive) ==
    /\ ~IsFromBytes(to_string(derive))
    /\ ~IsFromBits(to_string(derive))
    /\ IsPlainDebug(to_string(derive))
    /\ is_struct

\* one target of the current derive list hits the guarded Debug arm
AbortDebug ==
    /\ pc = "derives"
    /\ DebugArm(derives[didx])
    /\ Abort("use derive(DebugBits) for structs", "", derives[didx].span)
    /\ UNCHANGED locals

\* one target of the current derive list is recorded and pushed
PushDerive ==
    /\ pc = "derives"
    /\ LET derive == derives[didx]
       IN  /\ ~DebugArm(derive)
           /\ from_bytes' = NoteFromBytes(derive)
           /\ has_frombits' = NoteFromBits(derive)
           /\ IF is_bitfield_derive(derive)
              THEN /\ before_compression' = Append(before_compression, into_attribute(derive))
                   /\ UNCHANGED after_compression
              ELSE /\ after_compression' = Append(after_compression, into_attribute(derive))
                   /\ UNCHANGED before_compression
           /\ AfterDerive(derives, didx + 1)
    /\ UNCHANGED << item, diag, result >>

RejectBitsizeInternal ==
    /\ pc = "loop"
    /\ idx <= Len(attrs)
    /\ parse_attribute(attrs[idx], idx).variant = "BitsizeInternal"
    /\ Abort("remove bitsize_internal",
             "attribute bitsize_internal can only be applied internally by the bitsize macros",
             Span(idx, 0))
    /\ UNCHANGED locals

\* fault variant: the attribute is put at the front
PushOther_Front ==
    /\ pc = "loop"
    /\ idx <= Len(attrs)
    /\ LET parsed_attr == parse_attribute(attrs[idx], idx)
       IN  /\ parsed_attr.variant = "Other"
           /\ after_compression' = <<parsed_attr.attr>> \o after_compression
    /\ idx' = idx + 1
    /\ UNCHANGED << item, pc, diag, result, derives, didx, from_bytes, has_frombits,
                    before_compression >>

PushOther ==
    /\ pc = "loop"
    /\ idx <= Len(attrs)
    /\ LET parsed_attr == parse_attribute(attrs[idx], idx)
       IN  /\ parsed_attr.variant = "Other"
           /\ after_compression' = Append(after_compression, parsed_attr.attr)
    /\ idx' = idx + 1
    /\ UNCHANGED << item, pc, diag, result, derives, didx, from_bytes, has_frombits,
                    before_compression >>

\* fault variant: the companion rule applied to enums too
MissingFromBits_AnyKind == from_bytes # None /\ ~has_frombits

MissingFromBits == from_bytes # None /\ ~has_frombits /\ is_struct

\* after the loop: FromBytes without FromBits on a struct
AbortMissingFromBits ==
    /\ pc = "loop"
    /\ idx > Len(attrs)
    /\ MissingFromBits
    /\ Abort("a bitfield struct with zerocopy::FromBytes also needs to have FromBits",
             "", from_bytes.span)
    /\ UNCHANGED locals

\* fault variant: enums keep the struct-style split
Return_NoCollapse ==
    /\ pc = "loop"
    /\ idx > Len(attrs)
    /\ ~MissingFromBits
    /\ result' = [before_compression |-> before_compression,
                  after_compression |-> after_compression]
    /\ pc' = "done"
    /\ UNCHANGED << item, diag >>
    /\ UNCHANGED locals

\* after the loop: enums get everything before compression; the call returns
Return ==
    /\ pc = "loop"
    /\ idx > Len(attrs)
    /\ ~MissingFromBits
    /\ LET before == IF ~is_struct
                     THEN before_compression \o after_compression
                     ELSE before_compression
           after  == IF ~is_struct THEN <<>> ELSE after_compression
       IN  /\ before_compression' = before
           /\ after_compression' = after
           /\ result' = [before_compression |-> before, after_compression |-> after]
    /\ pc' = "done"
    /\ UNCHANGED << item, diag, idx, derives, didx, from_bytes, has_frombits >>

Next ==
    \/ AbortNotStructOrEnum
    \/ EnterLoop
    \/ ParseDeriveList
    \/ FailParseDerive
    \/ AbortDebug
    \/ PushDerive
    \/ RejectBitsizeInternal
    \/ PushOther
    \/ AbortMissingFromBits
    \/ Return

Spec == Init /\ [][Next]_vars

Finished == pc \in {"done", "aborted"}

TypeOK ==
    /\ pc \in {"start", "loop", "derives", "done", "aborted"}
    /\ idx \in 1..(Len(attrs) + 1)
    /\ pc = "derives" => didx \in 1..Len(derives)

(***************************************************************************)
(* Vocabulary of the properties, stated on the item as written: the text   *)
(* of its attributes and the comma-separated entries of its derive lists.  *)
(***************************************************************************)
MsgMarker == "remove bitsize_internal"

MsgDebug == "use derive(DebugBits) for structs"

MsgCompanion == "a bitfield struct with zerocopy::FromBytes also needs to have FromBits"

MsgParse == "failed to parse derive"

StructOrEnum == item.kind \in {"Struct", "Enum"}

RenderedText(attribute) == TokensToString(MetaTokens(attribute.meta))

MentionsMarker(attribute) == contains(RenderedText(attribute), "bitsize_internal")

IsDeriveListAttr(attribute) ==
    /\ attribute.meta.kind = "List"
    /\ attribute.meta.path = MkPath(FALSE, <<"derive">>)

RECURSIVE SplitCommas(_, _)
SplitCommas(toks, cur) ==
    IF toks = <<>> THEN (IF cur = <<>> THEN <<>> ELSE <<cur>>)
    ELSE IF toks[1] = "," THEN <<cur>> \o SplitCommas(Tail(toks), <<>>)
    ELSE SplitCommas(Tail(toks), Append(cur, toks[1]))

\* an entry is a path: identifiers separated by `::`, optionally led by `::`
IsPathEntry(g) ==
    LET body == IF g # <<>> /\ g[1] = "::" THEN Tail(g) ELSE g
    IN  /\ Len(body) % 2 = 1
        /\ \A k \in 1..Len(body) :
              IF k % 2 = 1 THEN IsIdent(body[k]) ELSE body[k] = "::"

ListParses(attribute) ==
    LET gs == SplitCommas(attribute.meta.tokens, <<>>)
    IN  \A k \in DOMAIN gs : IsPathEntry(gs[k])

\* the entries of derive list i, each with its text and its place
TargetsOf(i) ==
    IF IsDeriveListAttr(attrs[i]) /\ ListParses(attrs[i])
    THEN LET gs == SplitCommas(attrs[i].meta.tokens, <<>>)
         IN  [j \in 1..Len(gs) |-> [tokens |-> gs[j], text |-> TokensToString(gs[j]),
                                    at |-> Span(i, j)]]
    ELSE <<>>

RECURSIVE AllTargetsFrom(_)
AllTargetsFrom(i) ==
    IF i > Len(attrs) THEN <<>> ELSE TargetsOf(i) \o AllTargetsFrom(i + 1)

AllTargets == AllTargetsFrom(1)

SpelledFromBytes(t) == t.text = "FromBytes" \/ t.text = "zerocopy :: FromBytes"

SpelledFromBits(t) == t.text = "FromBits" \/ t.text = "bilge :: FromBits"

SpelledPlainDebug(t) ==
    \/ t.text = "Debug"
    \/ t.text = "fmt :: Debug"
    \/ t.text = "core :: fmt :: Debug"
    \/ t.text = "std :: fmt :: Debug"

HasTarget(P(_)) ==
    LET ts == AllTargets
    IN  \E k \in DOMAIN ts : P(ts[k])

FirstTarget(P(_)) ==
    LET ts == AllTargets
    IN  ts[CHOOSE k \in DOMAIN ts :
              /\ P(ts[k])
              /\ \A m \in 1..(k - 1) : ~P(ts[m])]

LastTarget(P(_)) ==
    LET ts == AllTargets
    IN  ts[CHOOSE k \in DOMAIN ts :
              /\ P(ts[k])
              /\ \A m \in (k + 1)..Len(ts) : ~P(ts[m])]

AllListsParse ==
    \A i \in DOMAIN attrs : IsDeriveListAttr(attrs[i]) => ListParses(attrs[i])

\* what attribute i does to the pass on its own
Verdict(i) ==
    IF IsDeriveListAttr(attrs[i])
    THEN IF ~ListParses(attrs[i]) THEN MsgParse
         ELSE IF is_struct /\ LET ts == TargetsOf(i)
                               IN  \E j \in DOMAIN ts : SpelledPlainDebug(ts[j])
         THEN MsgDebug
         ELSE "ok"
    ELSE IF MentionsMarker(attrs[i]) THEN MsgMarker ELSE "ok"

Offenders == { i \in DOMAIN attrs : Verdict(i) # "ok" }

FirstOffender ==
    LET os == Offenders
    IN  CHOOSE i \in os : \A k \in os : i <= k

MarkerAttrs == { i \in DOMAIN attrs : ~IsDeriveListAttr(attrs[i]) /\ MentionsMarker(attrs[i]) }

CompanionMissing ==
    is_struct /\ HasTarget(SpelledFromBytes) /\ ~HasTarget(SpelledFromBits)

Aborted(message) == pc = "aborted" /\ diag # None /\ diag.message = message

Returned == pc = "done" /\ result # None

\* the singleton derives and untouched attributes the item expands to
SingletonOf(t) == MkAttribute(MetaList(MkPath(FALSE, <<"derive">>), t.tokens))

EndsInBits(t) == ends_with(t.tokens[Len(t.tokens)], "Bits")

ExpansionOf(i) ==
    IF IsDeriveListAttr(attrs[i])
    THEN LET ts == TargetsOf(i)
         IN  [j \in DOMAIN ts |->
                [attr |-> SingletonOf(ts[j]), structural |-> EndsInBits(ts[j])]]
    ELSE << [attr |-> attrs[i], structural |-> FALSE] >>

RECURSIVE ExpansionFrom(_)
ExpansionFrom(i) ==
    IF i > Len(attrs) THEN <<>> ELSE ExpansionOf(i) \o ExpansionFrom(i + 1)

Expansion == ExpansionFrom(1)

IsStructural(e) == e.structural

IsOrdinary(e) == ~e.structural

AttrsIn(es) == [k \in DOMAIN es |-> es[k].attr]

StructuralPart == AttrsIn(SelectSeq(Expansion, IsStructural))

OrdinaryPart == AttrsIn(SelectSeq(Expansion, IsOrdinary))

\* the attributes at which the pass aborts, if any
NoOffender == \A i \in DOMAIN attrs : Verdict(i) = "ok"

Range(seq) == { seq[k] : k \in DOMAIN seq }

Count(seq, e) == Cardinality({ k \in DOMAIN seq : seq[k] = e })

SameMultiset(s, t) ==
    /\ Range(s) = Range(t)
    /\ \A e \in Range(s) : Count(s, e) = Count(t, e)

(***************************************************************************)
(* Properties                                                              *)
(***************************************************************************)

\* C7 as stated: the diagnostic is that of the highest-priority violated rule
\* (internal marker, then forbidden debug, then required companion), whatever
\* the source order of the offending attributes.
C7_PriorityOrder ==
    (Finished /\ StructOrEnum /\ AllListsParse) =>
        IF MarkerAttrs # {} THEN Aborted(MsgMarker)
        ELSE IF is_struct /\ HasTarget(SpelledPlainDebug) THEN Aborted(MsgDebug)
        ELSE IF CompanionMissing THEN Aborted(MsgCompanion)
        ELSE Returned

\* C7 (amended): the marker rule, the forbidden-debug rule and derive parsing
\* are applied attribute by attribute in one pass in source order, so the
\* diagnostic is that of the first offending attribute and cites it; the
\* required-companion rule is applied only after the whole pass, and when no
\* rule is violated the call returns without a diagnostic.
C7_SourceOrderPriority ==
    (Finished /\ StructOrEnum) =>
        IF ~NoOffender
        THEN Aborted(Verdict(FirstOffender)) /\ diag.span.attr = FirstOffender
        ELSE IF CompanionMissing THEN Aborted(MsgCompanion)
        ELSE Returned /\ diag = None

\* a struct whose Debug derive precedes a marker attribute aborts on Debug
C7_Witness ==
    /\ is_struct
    /\ Aborted(MsgDebug)
    /\ MarkerAttrs # {}
    /\ \A i \in MarkerAttrs : diag.span.attr < i

\* C1 as stated: any attribute whose rendered text contains bitsize_internal,
\* in any position and next to any other attributes, makes the call abort with
\* the 'remove bitsize_internal' diagnostic and return no result (read on
\* items whose derive lists all parse).
C1_AnyAttributeRejected ==
    (Finished /\ StructOrEnum /\ AllListsParse
        /\ \E i \in DOMAIN attrs : MentionsMarker(attrs[i])) =>
        Aborted(MsgMarker) /\ result = None

\* C1 (amended): if an attribute that is not a derive list has rendered text
\* containing bitsize_internal (in its path or its arguments), the call aborts
\* and returns no result, whatever its position and the other attributes; the
\* diagnostic is 'remove bitsize_internal', citing the first such attribute,
\* exactly when no earlier attribute aborts the pass first (a derive list that
\* fails to parse or, on a struct, lists a plain-debug target).  A derive list
\* is never examined for the marker.
C1_MarkerRejection ==
    (Finished /\ StructOrEnum /\ MarkerAttrs # {}) =>
        LET m == CHOOSE i \in MarkerAttrs : \A k \in MarkerAttrs : i <= k
        IN  /\ pc = "aborted" /\ diag # None /\ result = None
            /\ Aborted(MsgMarker) <=> (\A k \in 1..(m - 1) : Verdict(k) = "ok")
            /\ Aborted(MsgMarker) =>
                  /\ diag.span = Span(m, 0)
                  /\ ~IsDeriveListAttr(attrs[diag.span.attr])

\* the marker sits in the arguments of an attribute that is not the first
C1_Witness ==
    /\ Aborted(MsgMarker)
    /\ diag.span.attr > 1
    /\ attrs[diag.span.attr].meta.kind = "NameValue"

\* C2 as stated: a struct with a FromBytes target aborts with the 'also needs
\* to have FromBits' diagnostic if and only if no FromBits target occurs in
\* any of its derive lists (read on items whose derive lists all parse).
C2_CompanionIff ==
    (Finished /\ is_struct /\ AllListsParse /\ HasTarget(SpelledFromBytes)) =>
        (Aborted(MsgCompanion) <=> ~HasTarget(SpelledFromBits))

\* C2 (amended): a struct with a FromBytes target aborts with the 'also needs
\* to have FromBits' diagnostic if and only if no FromBits target occurs in any
\* of its derive lists, wherever it stands, and no attribute aborts the pass
\* before the companion rule is reached (no marker attribute, no plain-debug
\* target, no derive list that fails to parse).
C2_CompanionRule ==
    (Finished /\ is_struct /\ HasTarget(SpelledFromBytes)) =>
        (Aborted(MsgCompanion) <=> (~HasTarget(SpelledFromBits) /\ NoOffender))

\* FromBytes without FromBits, spread over two derive lists
C2_Witness ==
    /\ is_struct
    /\ Aborted(MsgCompanion)
    /\ Len(attrs) >= 2
    /\ HasTarget(SpelledFromBytes)

\* C3 as stated: a struct with a plain-debug target aborts with the 'use
\* derive(DebugBits) for structs' diagnostic; an enum with such a target never
\* aborts with it and emits the target as a singleton derive (read on items
\* whose derive lists all parse).
C3_DebugForbidden ==
    (Finished /\ StructOrEnum /\ AllListsParse /\ HasTarget(SpelledPlainDebug)) =>
        IF is_struct THEN Aborted(MsgDebug)
        ELSE /\ ~Aborted(MsgDebug)
             /\ Returned =>
                   \A k \in DOMAIN AllTargets :
                       SpelledPlainDebug(AllTargets[k]) =>
                           SingletonOf(AllTargets[k]) \in Range(result.before_compression)

\* C3 (amended): a struct with a plain-debug target always aborts; the
\* diagnostic is 'use derive(DebugBits) for structs', citing the first
\* plain-debug target, exactly when no earlier attribute aborts the pass first
\* (a marker attribute or a derive list that fails to parse).  An enum with
\* such a target never aborts with that diagnostic and, when it returns, emits
\* the target as a singleton derive.
C3_DebugRule ==
    (Finished /\ StructOrEnum /\ HasTarget(SpelledPlainDebug)) =>
        IF is_struct
        THEN /\ pc = "aborted" /\ diag # None /\ result = None
             /\ Aborted(MsgDebug) <=> Verdict(FirstOffender) = MsgDebug
             /\ Aborted(MsgDebug) => diag.span = FirstTarget(SpelledPlainDebug).at
        ELSE /\ ~Aborted(MsgDebug)
             /\ Returned =>
                   \A k \in DOMAIN AllTargets :
                       SpelledPlainDebug(AllTargets[k]) =>
                           SingletonOf(AllTargets[k]) \in Range(result.before_compression)

\* a qualified spelling, not the first target of the struct
C3_Witness ==
    /\ is_struct
    /\ Aborted(MsgDebug)
    /\ FirstTarget(SpelledPlainDebug).text = "core :: fmt :: Debug"
    /\ diag.span # Span(1, 1)

\* C4: for a struct on which the call returns, every input attribute is in
\* exactly one of before_compression / after_compression (a derive list by its
\* singleton derives, any other attribute unchanged in after_compression), and
\* a singleton derive is in before_compression iff its last segment ends with
\* Bits.
C4_PartitionTotality ==
    (Returned /\ is_struct) =>
        /\ SameMultiset(result.before_compression, StructuralPart)
        /\ SameMultiset(result.after_compression, OrdinaryPart)
        /\ \A k \in DOMAIN result.before_compression :
              LET a == result.before_compression[k]
              IN  /\ IsDeriveListAttr(a)
                  /\ ends_with(a.meta.tokens[Len(a.meta.tokens)], "Bits")
        /\ \A k \in DOMAIN result.after_compression :
              LET a == result.after_compression[k]
              IN  (IsDeriveListAttr(a) /\ a.meta.tokens # <<>>) =>
                      ~ends_with(a.meta.tokens[Len(a.meta.tokens)], "Bits")
        /\ \A i \in DOMAIN attrs :
              ~IsDeriveListAttr(attrs[i]) =>
                  /\ attrs[i] \in Range(result.after_compression)
                  /\ attrs[i] \notin Range(result.before_compression)

\* a struct whose result has both parts and an untouched attribute
C4_Witness ==
    /\ Returned /\ is_struct
    /\ result.before_compression # <<>>
    /\ \E k \in DOMAIN result.after_compression :
          IsDeriveListAttr(result.after_compression[k])
    /\ \E i \in DOMAIN attrs : ~IsDeriveListAttr(attrs[i])

\* C5: for an enum on which the call returns, after_compression is empty and
\* before_compression is the struct-style before sequence followed by the
\* struct-style after sequence.
C5_EnumCollapse ==
    (Returned /\ ~is_struct) =>
        /\ result.after_compression = <<>>
        /\ result.before_compression = StructuralPart \o OrdinaryPart

\* an enum whose first decoration is ordinary and a later one structural
C5_Witness ==
    /\ Returned /\ ~is_struct
    /\ StructuralPart # <<>>
    /\ OrdinaryPart # <<>>
    /\ ~Expansion[1].structural

\* C6: whenever the call returns, before_compression plus after_compression
\* is, as a multiset, the input with every derive list replaced by one
\* singleton derive per listed target and every other attribute kept.
C6_ExpansionCompleteness ==
    Returned =>
        /\ SameMultiset(result.before_compression \o result.after_compression,
                        AttrsIn(Expansion))
        /\ Len(result.before_compression) + Len(result.after_compression) = Len(Expansion)

\* the same qualified target listed twice
C6_Witness ==
    /\ Returned
    /\ \E k, m \in DOMAIN AllTargets :
          /\ k < m
          /\ AllTargets[k].text = AllTargets[m].text
          /\ Len(AllTargets[k].tokens) > 1

\* C8 as stated: an aborting rule cites the first occurrence of the offending
\* target: the first FromBytes target, the first plain-debug target.
C8_FirstOccurrenceCited ==
    /\ Aborted(MsgCompanion) => diag.span = FirstTarget(SpelledFromBytes).at
    /\ Aborted(MsgDebug) => diag.span = FirstTarget(SpelledPlainDebug).at

\* C8 (amended): the forbidden-debug abort cites the first plain-debug target
\* in source order; the required-companion abort cites the last FromBytes
\* target in source order.
C8_CitedOccurrence ==
    /\ Aborted(MsgCompanion) => diag.span = LastTarget(SpelledFromBytes).at
    /\ Aborted(MsgDebug) => diag.span = FirstTarget(SpelledPlainDebug).at

\* the companion abort of a struct that lists FromBytes more than once
C8_Witness ==
    /\ Aborted(MsgCompanion)
    /\ FirstTarget(SpelledFromBytes).at # LastTarget(SpelledFromBytes).at

\* C9: for a struct, each of before_compression and after_compression keeps
\* the source order of the attributes and of the targets inside a derive list;
\* the documented example yields [DebugBits, FromBits] and
\* [Clone, Copy, PartialEq].
C9_OrderPreserved ==
    /\ (Returned /\ is_struct) =>
          /\ result.before_compression = StructuralPart
          /\ result.after_compression = OrdinaryPart
    /\ (Finished /\ item = ExampleItem) =>
          /\ Returned
          /\ result.before_compression =
                << DeriveOf(<<Ident("DebugBits")>>), DeriveOf(<<Ident("FromBits")>>) >>
          /\ result.after_compression =
                << DeriveOf(<<Ident("Clone")>>), DeriveOf(<<Ident("Copy")>>),
                   DeriveOf(<<Ident("PartialEq")>>) >>

\* a struct with an untouched attribute ahead of an ordinary derive
C9_Witness ==
    /\ Returned /\ is_struct
    /\ Len(result.after_compression) >= 2
    /\ ~IsDeriveListAttr(result.after_compression[1])
    /\ IsDeriveListAttr(result.after_compression[2])
    /\ result.before_compression # <<>>

\* C10: for a struct or enum whose derive lists all parse, the call aborts iff
\* (a) a non-derive attribute mentions bitsize_internal, or (b) the item is a
\* struct with a plain-debug target, or (c) the item is a struct with a
\* FromBytes target and no FromBits target; otherwise it returns; a diagnostic
\* and a result never coexist, and a result is always the complete expansion.
C10_ExactAbortConditions ==
    /\ result # None => pc = "done" /\ diag = None
    /\ diag # None => pc = "aborted" /\ result = None
    /\ (Finished /\ StructOrEnum /\ AllListsParse) =>
          /\ pc = "aborted" <=>
                \/ MarkerAttrs # {}
                \/ is_struct /\ HasTarget(SpelledPlainDebug)
                \/ CompanionMissing
          /\ pc = "aborted" => diag # None
          /\ pc = "done" =>
                /\ result # None
                /\ Len(result.before_compression) + Len(result.after_compression)
                      = Len(Expansion)

\* an enum with Debug, and with FromBytes but no FromBits, returns
C10_Witness ==
    /\ Returned /\ ~is_struct
    /\ HasTarget(SpelledPlainDebug)
    /\ HasTarget(SpelledFromBytes)
    /\ ~HasTarget(SpelledFromBits)

====
